---- MODULE Spec2Model ----
(***************************************************************************)
(* Sales record-keeping service (Sharooq-1996/shop-backend).               *)
(*                                                                         *)
(* The repository holds several revisions of the same one-file program.    *)
(* Each revision is a deployment ("variant") of the service over the same  *)
(* table `sales`:                                                          *)
(*   "mainA"  src/main.go lines 1-183    (client timestamps, path delete)  *)
(*   "mainB"  src/main.go lines 185-358  (LIMIT 100, no payment method)    *)
(*   "p000"   src/unnamed/part_000       (POST /sales/delete)              *)
(*   "p001"   src/unnamed/part_001       (scan errors ignored)             *)
(*   "p004"   src/unnamed/part_004       (LIMIT 500, /sales/reset)         *)
(* src/unnamed/part_002 is not modelled as a deployment: the statement of  *)
(* its getSales is not Go (lines 129-130), so there is no /sales handler   *)
(* to translate; its createSale equals the one of part_004 in what it      *)
(* stores.  src/unnamed/part_003 is the SQL Server twin of part_001.       *)
(*                                                                         *)
(* The store runs every SQL statement atomically; a statement that returns *)
(* an error has changed nothing.  Columns `cell` and `warranty` of mainA   *)
(* are copied through unchanged and are left out.                          *)
(*                                                                         *)
(* Units: a price is an integer number of thousandths, a timestamp is an   *)
(* integer number of clock ticks, a calendar day is TicksPerDay ticks.     *)
(***************************************************************************)
EXTENDS Integers, Sequences, FiniteSets, TLC

VARIABLES
    variant,     \* which revision is deployed (fixed at start)
    rows,        \* table sales: a set of rows, sale_id is the primary key
    seq,         \* last value handed out by sequence sales_sale_id_seq
    clock,       \* wall clock of store and server, in ticks
    resp,        \* the last HTTP exchange: request, status, body, store calls
    acked,       \* history: bodies of successful creates since the last delete/clear
    deletedIds,  \* history: ids deleted with success since the last clear, each
                 \* with whether the sequence had handed it out by then
    afterReset,  \* history: "reset" after a successful reset, "created" after
                 \* the first successful create that follows it, else "none"
    reqs,        \* in-flight create requests of the concurrent specification
    fault,       \* history: how the store failed during the last exchange:
                 \* "none", "down" (the statement returned an error), "rows"
                 \* (row iteration ended with an error), "scan" (a Scan failed)
    idHist,      \* history: the ids handed to created rows and the ids of
                 \* rows removed, since the last successful reset (issued,
                 \* gone) and since the start (issuedEver, goneEver)
    proc         \* the process: where main() is (phase), what it was started
                 \* with (env) and whether its schema initializer has run
                 \* and succeeded (schema)

vars == <<variant, rows, seq, clock, resp, acked, deletedIds, afterReset, reqs,
          fault, idHist, proc>>

----------------------------------------------------------------------------
(* Bounds of the model *)

MaxRows == 2        \* rows the table may hold
MaxClock == 1       \* last clock tick
NumReqs == 2        \* concurrent create requests

----------------------------------------------------------------------------
(* Program constants *)

Variants == {"mainA", "mainB", "p000", "p001", "p004"}

\* The sequence stops handing out ids here (a bound of the model).
MaxId == MaxRows

\* SERIAL: the sequence starts at 1, so its state before the first nextval is 0.
InitialId == 1

\* LIMIT 500 of part_004 and LIMIT 100 of mainB, scaled down so that a
\* table of MaxRows rows can exceed them.
Limit500 == 1
Limit100 == 1

\* Offset of Asia/Kolkata from the store clock (5h30), scaled to ticks.
IstOffset == 1

\* Length of a calendar day in ticks.
TicksPerDay == 2

HasLimit(v) == v \in {"p004", "mainB"}
Limit(v) == IF v = "p004" THEN Limit500 ELSE Limit100

\* The Sale struct of the revision has a PaymentMethod field.
HasPaymentMethod(v) == v \in {"mainA", "p000", "p004"}

\* Routes registered by main() with http.HandleFunc.
Routes(v) ==
    CASE v = "mainA" -> {"/sales", "/sales/create", "/sales/delete/"}
      [] v = "mainB" -> {"/health", "/sales", "/sales/create"}
      [] v = "p000"  -> {"/sales", "/sales/create", "/sales/delete", "/health"}
      [] v = "p001"  -> {"/sales", "/sales/create"}
      [] v = "p004"  -> {"/health", "/sales", "/sales/create", "/sales/reset"}

----------------------------------------------------------------------------
(* Request bodies *)

\* A timestamp text as a client may send it in createdDate.
TsText(t) == [text |-> "ts", at |-> t]
EmptyText == [text |-> "", at |-> 0]
BadText == [text |-> "bad", at |-> 0]

EmptyBody == [kind |-> "empty"]
BadJson == [kind |-> "invalid"]
Json(obj) == [kind |-> "json", obj |-> obj]

\* The example of the specification.
BodyAsha ==
    Json([customerName |-> "Asha", productName |-> "Watch", quantity |-> 2,
          price |-> 499500, paymentMethod |-> "UPI"])
\* No paymentMethod, a price with three fractional digits (1.995), a
\* client-supplied timestamp.
BodyRavi ==
    Json([customerName |-> "Ravi", productName |-> "Cell", quantity |-> 1,
          price |-> 1995, createdDate |-> TsText(0)])
\* An unparseable createdDate.
BodyBadDate ==
    Json([customerName |-> "Asha", productName |-> "Cell", quantity |-> 1,
          price |-> 1000, paymentMethod |-> "CASH", createdDate |-> BadText])

ValidBodies == {BodyAsha, BodyRavi, BodyBadDate}
Bodies == {EmptyBody, BadJson} \cup ValidBodies

Has(obj, f) == f \in DOMAIN obj

----------------------------------------------------------------------------
(* encoding/json: Decode(&sale) *)

\* The zero value of Sale.
ZeroSale ==
    [customerName |-> "", productName |-> "", quantity |-> 0, price |-> 0,
     paymentMethod |-> "", createdDate |-> EmptyText]

\* CreatedDate is a string in mainA and a time.Time everywhere else; a
\* time.Time refuses a text that is no RFC 3339 timestamp.
DateDecodes(v, obj) ==
    \/ v = "mainA"
    \/ ~Has(obj, "createdDate")
    \/ obj.createdDate.text = "ts"

\* Fields of the body that the struct does not declare are dropped; fields
\* the body omits keep their zero value.
DecodedSale(v, obj) ==
    [customerName |-> IF Has(obj, "customerName") THEN obj.customerName ELSE "",
     productName |-> IF Has(obj, "productName") THEN obj.productName ELSE "",
     quantity |-> IF Has(obj, "quantity") THEN obj.quantity ELSE 0,
     price |-> IF Has(obj, "price") THEN obj.price ELSE 0,
     paymentMethod |->
        IF HasPaymentMethod(v) /\ Has(obj, "paymentMethod")
        THEN obj.paymentMethod ELSE "",
     createdDate |->
        IF Has(obj, "createdDate") /\ DateDecodes(v, obj)
        THEN obj.createdDate ELSE EmptyText]

Decode(v, body) ==
    CASE body.kind = "empty" -> [err |-> "EOF", sale |-> ZeroSale]
      [] body.kind = "invalid" ->
            [err |-> "invalid character", sale |-> ZeroSale]
      [] OTHER ->
            [err |-> IF DateDecodes(v, body.obj) THEN "" ELSE "parsing time",
             sale |-> DecodedSale(v, body.obj)]

----------------------------------------------------------------------------
(* The store: table sales and its sequence *)

\* Mutant: the price is cut to two fractional digits instead of rounded.
NumericTrunc(p) == (p \div 10) * 10

\* NUMERIC(10,2): a value is rounded to two fractional digits, half away
\* from zero (prices are in thousandths here).
NumericRound(p) ==
    IF p >= 0 THEN ((p + 5) \div 10) * 10 ELSE -(((-p) + 5) \div 10) * 10

\* nextval of the SERIAL column's sequence.
NextVal(sq) == sq + 1

Row(id, sale, pm, created) ==
    [sale_id |-> id, customer_name |-> sale.customerName,
     product_name |-> sale.productName, quantity |-> sale.quantity,
     price |-> NumericRound(sale.price), payment_method |-> pm,
     created_date |-> created]

StoreError(tbl, sq) == [err |-> "store error", rows |-> tbl, seq |-> sq]

\* Mutant: the row is written and the sequence is not advanced.
InsertedSameId(tbl, sq, row) == [err |-> "", rows |-> tbl \cup {row}, seq |-> sq]

Inserted(tbl, sq, row) == [err |-> "", rows |-> tbl \cup {row}, seq |-> row.sale_id]

\* mainA: all columns from the request; created_date is CURRENT_TIMESTAMP
\* when the text is empty, the text cast to a timestamp otherwise.
InsertMainA(sale, up, tbl, sq, now) ==
    IF ~up \/ sale.createdDate.text = "bad" THEN StoreError(tbl, sq)
    ELSE Inserted(tbl, sq,
            Row(NextVal(sq), sale, sale.paymentMethod,
                IF sale.createdDate.text = "" THEN now ELSE sale.createdDate.at))

\* mainB and p001: four columns; payment_method and created_date take the
\* column defaults ('CASH', CURRENT_TIMESTAMP).
InsertFourColumns(sale, up, tbl, sq, now) ==
    IF ~up THEN StoreError(tbl, sq)
    ELSE Inserted(tbl, sq, Row(NextVal(sq), sale, "CASH", now))

\* p000: five columns from the request, created_date NOW() AT TIME ZONE
\* 'Asia/Kolkata'.
InsertP000(sale, up, tbl, sq, now) ==
    IF ~up THEN StoreError(tbl, sq)
    ELSE Inserted(tbl, sq,
            Row(NextVal(sq), sale, sale.paymentMethod, now + IstOffset))

\* p004: five columns from the request, created_date the server's
\* time.Now() in Asia/Kolkata.
InsertP004(sale, up, tbl, sq, now) ==
    IF ~up THEN StoreError(tbl, sq)
    ELSE Inserted(tbl, sq,
            Row(NextVal(sq), sale, sale.paymentMethod, now + IstOffset))

\* Mutant: the statement reports success and deletes nothing.
DeleteNothing(id, up, tbl, sq) ==
    IF ~up THEN StoreError(tbl, sq) ELSE [err |-> "", rows |-> tbl, seq |-> sq]

\* Mutant: WHERE sale_id <= $1.
DeleteUpTo(id, up, tbl, sq) ==
    IF ~up THEN StoreError(tbl, sq)
    ELSE [err |-> "", rows |-> {r \in tbl : r.sale_id > id}, seq |-> sq]

\* Mutant: the delete also sets the sequence back when the last id goes.
DeleteRewind(id, up, tbl, sq) ==
    IF ~up THEN StoreError(tbl, sq)
    ELSE [err |-> "", rows |-> {r \in tbl : r.sale_id # id},
          seq |-> IF id = sq /\ (\E r \in tbl : r.sale_id = id) THEN sq - 1 ELSE sq]

\* DELETE FROM sales WHERE sale_id=$1
DeleteStmt(id, up, tbl, sq) ==
    IF ~up THEN StoreError(tbl, sq)
    ELSE [err |-> "", rows |-> {r \in tbl : r.sale_id # id}, seq |-> sq]

\* Mutant: TRUNCATE TABLE sales, the sequence left as it is.
TruncateKeepIdentity(up, tbl, sq) ==
    IF ~up THEN StoreError(tbl, sq) ELSE [err |-> "", rows |-> {}, seq |-> sq]

\* TRUNCATE TABLE sales RESTART IDENTITY
TruncateStmt(up, tbl, sq) ==
    IF ~up THEN StoreError(tbl, sq)
    ELSE [err |-> "", rows |-> {}, seq |-> InitialId - 1]

Range(s) == {s[i] : i \in DOMAIN s}

\* ORDER BY created_date DESC
OrderedDesc(s) ==
    \A i, j \in DOMAIN s : i < j => s[i].created_date >= s[j].created_date

Min(a, b) == IF a < b THEN a ELSE b

\* The results SELECT ... ORDER BY created_date DESC [LIMIT n] may return:
\* rows of equal created_date come in any order.
SelectOrdered(tbl, limited, n) ==
    LET len == IF limited THEN Min(n, Cardinality(tbl)) ELSE Cardinality(tbl)
    IN {s \in [1..len -> tbl] :
            /\ \A i, j \in 1..len : i # j => s[i] # s[j]
            /\ OrderedDesc(s)
            /\ \A r \in tbl \ Range(s) :
                  \A i \in 1..len : s[i].created_date >= r.created_date}

\* rows.Scan into a Sale and its JSON encoding.
ToSale(v, r) ==
    IF HasPaymentMethod(v)
    THEN [saleId |-> r.sale_id, customerName |-> r.customer_name,
          productName |-> r.product_name, quantity |-> r.quantity,
          price |-> r.price, paymentMethod |-> r.payment_method,
          createdDate |-> r.created_date]
    ELSE [saleId |-> r.sale_id, customerName |-> r.customer_name,
          productName |-> r.product_name, quantity |-> r.quantity,
          price |-> r.price, createdDate |-> r.created_date]

----------------------------------------------------------------------------
(* Requests and responses *)

\* The id text after /sales/delete/ (mainA).
IdText(n) == [text |-> "num", at |-> n]

\* The query string of GET /sales: from and to are calendar days.
NoFilter == [on |-> FALSE, from |-> 0, to |-> 0]
Filter(a, b) == [on |-> TRUE, from |-> a, to |-> b]

Request(path, method, body, arg, filter) ==
    [path |-> path, method |-> method, body |-> body, arg |-> arg,
     filter |-> filter]

\* What a handler does: the response it writes, the number of statements it
\* sent to the store, and the table and sequence it leaves.
Outcome(status, text, sales, dbCalls, tbl, sq) ==
    [status |-> status, text |-> text, sales |-> sales, dbCalls |-> dbCalls,
     rows |-> tbl, seq |-> sq]

\* A handler that answers without calling the store.
Reply(status, text) == Outcome(status, text, <<>>, 0, rows, seq)

\* The response after an Exec: 500 with the error text, or the message.
AfterExec(st, message) ==
    IF st.err # "" THEN Outcome(500, st.err, <<>>, 1, st.rows, st.seq)
    ELSE Outcome(200, message, <<>>, 1, st.rows, st.seq)

NoExchange ==
    [req |-> Request("", "", EmptyBody, EmptyText, NoFilter),
     status |-> 0, text |-> "", sales |-> <<>>, dbCalls |-> 0]

----------------------------------------------------------------------------
(* GET /sales: the possible outcomes of getSales (no revision looks at the  *)
(* method or at the query string)                                           *)

\* How the iteration over the result ends: at its end, or with an error
\* (connection lost, deadline passed) after `after` rows were delivered:
\* either rows.Next() returns false with the error pending, or the Scan of
\* the next row returns it.
NoCut == [lost |-> FALSE, after |-> 0, scan |-> FALSE]
Cut(k) == [lost |-> TRUE, after |-> k, scan |-> FALSE]
ScanCut(k) == [lost |-> TRUE, after |-> k, scan |-> TRUE]

\* The Sale a Scan that failed leaves behind: the zero value of the struct.
ZeroScanned(v) ==
    ToSale(v, [sale_id |-> 0, customer_name |-> EmptyText.text,
               product_name |-> EmptyText.text, quantity |-> 0, price |-> 0,
               payment_method |-> EmptyText.text, created_date |-> 0])

\* for rows.Next() { Scan; append }: the loop ends when Next returns false,
\* at the end of the result or on an error; what was appended by then is
\* encoded unless the handler looks at rows.Err().  A Scan that fails ends
\* the handler with 500 where its error is checked; where it is not, the
\* zero Sale is appended and the loop goes on.
Iterate(v, s, cut, checksScan, checksRowsErr) ==
    IF cut.lost /\ cut.scan
    THEN IF checksScan THEN Outcome(500, "store error", <<>>, 1, rows, seq)
         ELSE Outcome(200, "",
                      [i \in 1..Len(s) |-> IF i = cut.after + 1 THEN ZeroScanned(v)
                                                               ELSE ToSale(v, s[i])],
                      1, rows, seq)
    ELSE IF cut.lost /\ checksRowsErr THEN Outcome(500, "store error", <<>>, 1, rows, seq)
    ELSE LET len == IF cut.lost THEN cut.after ELSE Len(s)
         IN Outcome(200, "", [i \in 1..len |-> ToSale(v, s[i])], 1, rows, seq)

Listing(v, up, cut, limited, n, checksScan, checksRowsErr) ==
    IF ~up THEN {Outcome(500, "store error", <<>>, 1, rows, seq)}
    ELSE {Iterate(v, s, cut, checksScan, checksRowsErr) :
            s \in {t \in SelectOrdered(rows, limited, n) :
                      /\ cut.lost => cut.after <= Len(t)
                      /\ cut.scan => cut.after < Len(t)}}

getSalesMainA(req, up, cut) == Listing("mainA", up, cut, FALSE, 0, TRUE, FALSE)
\* mainB alone checks rows.Err() after the loop.
getSalesMainB(req, up, cut) == Listing("mainB", up, cut, TRUE, Limit100, TRUE, TRUE)
getSalesP000(req, up, cut) == Listing("p000", up, cut, FALSE, 0, TRUE, FALSE)
\* part_001 alone drops the error of rows.Scan.
getSalesP001(req, up, cut) == Listing("p001", up, cut, FALSE, 0, FALSE, FALSE)
getSalesP004(req, up, cut) == Listing("p004", up, cut, TRUE, Limit500, TRUE, FALSE)

----------------------------------------------------------------------------
(* POST /sales/create *)

\* mainA: no method check, the decode error is dropped.
createSaleMainA(req, up) ==
    LET sale == Decode("mainA", req.body).sale
    IN AfterExec(InsertMainA(sale, up, rows, seq, clock), "ok")

createSaleMainB(req, up) ==
    IF req.method = "OPTIONS" THEN Reply(200, "")
    ELSE IF req.method # "POST" THEN Reply(405, "Method not allowed")
    ELSE LET d == Decode("mainB", req.body)
         IN IF d.err # "" THEN Reply(400, d.err)
            ELSE AfterExec(InsertFourColumns(d.sale, up, rows, seq, clock),
                           "Sale added successfully")

\* p000 has no OPTIONS branch.
createSaleP000(req, up) ==
    IF req.method # "POST" THEN Reply(405, "Method not allowed")
    ELSE LET d == Decode("p000", req.body)
         IN IF d.err # "" THEN Reply(400, d.err)
            ELSE AfterExec(InsertP000(d.sale, up, rows, seq, clock), "Sale added")

createSaleP001(req, up) ==
    IF req.method = "OPTIONS" THEN Reply(200, "")
    ELSE IF req.method # "POST" THEN Reply(405, "Method not allowed")
    ELSE LET d == Decode("p001", req.body)
         IN IF d.err # "" THEN Reply(400, d.err)
            ELSE AfterExec(InsertFourColumns(d.sale, up, rows, seq, clock),
                           "Sale added successfully")

createSaleP004(req, up) ==
    IF req.method = "OPTIONS" THEN Reply(200, "")
    ELSE IF req.method # "POST" THEN Reply(405, "Method not allowed")
    ELSE LET d == Decode("p004", req.body)
         IN IF d.err # "" THEN Reply(400, d.err)
            ELSE AfterExec(InsertP004(d.sale, up, rows, seq, clock),
                           "Sale added successfully")

----------------------------------------------------------------------------
(* Delete and reset *)

\* mainA: /sales/delete/<id>, any method; the text is handed to the store,
\* which refuses what is no integer.
deleteSaleMainA(req, up) ==
    AfterExec(DeleteStmt(req.arg.at, up /\ req.arg.text = "num", rows, seq), "ok")

\* The body of POST /sales/delete decodes into struct{SaleID int}.
DecodeDelete(body) ==
    CASE body.kind = "empty" -> [err |-> "EOF", saleId |-> 0]
      [] body.kind = "invalid" -> [err |-> "invalid character", saleId |-> 0]
      [] OTHER -> [err |-> "",
                   saleId |-> IF Has(body.obj, "saleId") THEN body.obj.saleId ELSE 0]

deleteSaleP000(req, up) ==
    IF req.method # "POST" THEN Reply(405, "Method not allowed")
    ELSE LET d == DecodeDelete(req.body)
         IN IF d.err # "" THEN Reply(400, d.err)
            ELSE AfterExec(DeleteStmt(d.saleId, up, rows, seq),
                           "Sale deleted successfully")

resetSales(req, up) ==
    IF req.method # "POST" THEN Reply(405, "Method not allowed")
    ELSE AfterExec(TruncateStmt(up, rows, seq), "All sales deleted & ID reset")

\* The id a delete request names.
DeleteKey(v, req) ==
    IF v = "mainA" THEN req.arg.at ELSE DecodeDelete(req.body).saleId

----------------------------------------------------------------------------
(* Routing: the handler main() registered for the path *)

GetSales(v, req, up, cut) ==
    CASE v = "mainA" -> getSalesMainA(req, up, cut)
      [] v = "mainB" -> getSalesMainB(req, up, cut)
      [] v = "p000" -> getSalesP000(req, up, cut)
      [] v = "p001" -> getSalesP001(req, up, cut)
      [] v = "p004" -> getSalesP004(req, up, cut)

CreateSale(v, req, up) ==
    CASE v = "mainA" -> createSaleMainA(req, up)
      [] v = "mainB" -> createSaleMainB(req, up)
      [] v = "p000" -> createSaleP000(req, up)
      [] v = "p001" -> createSaleP001(req, up)
      [] v = "p004" -> createSaleP004(req, up)

DeleteSale(v, req, up) ==
    IF v = "mainA" THEN deleteSaleMainA(req, up) ELSE deleteSaleP000(req, up)

----------------------------------------------------------------------------
(* Inputs *)

Ids == 1..MaxId
Days == 0..((MaxClock + IstOffset) \div TicksPerDay)

\* The iteration over a result ends normally or after k rows.
Cuts == {NoCut} \cup {Cut(k) : k \in 0..(MaxRows - 1)}

\* The revisions whose query carries a deadline: when it passes between
\* rows.Next() and rows.Scan the rows are closed and the Scan fails.  A row
\* written by createSale has no NULL column and a value of the scanned type
\* in each, so a Scan fails in no other way.
HasDeadline(v) == v \in {"mainB", "p000", "p004"}

ScanCuts(v) == IF HasDeadline(v) THEN {ScanCut(0)} ELSE {}

\* GET /sales without a date range, the store up or down and the iteration
\* ending in every way; GET /sales with a date range and POST /sales with
\* the store up and the result read to its end.
ListInputs ==
    {<<"GET", NoFilter, TRUE, c>> : c \in Cuts \cup ScanCuts(variant)}
        \cup {<<"GET", NoFilter, FALSE, NoCut>>}
        \cup {<<"GET", Filter(d, d), TRUE, NoCut>> : d \in Days}
        \cup {<<"POST", NoFilter, TRUE, NoCut>>}

\* POST /sales/create with every body; the other methods with one body;
\* the store down for one valid body.
CreateInputs ==
    {<<"POST", b, TRUE>> : b \in Bodies}
        \cup {<<"POST", BodyAsha, FALSE>>, <<"GET", BodyAsha, TRUE>>,
              <<"OPTIONS", EmptyBody, TRUE>>}

\* p000: POST /sales/delete {"saleId": n}; mainA: GET /sales/delete/<n>;
\* the store down for one id.
DeleteInputs(v) ==
    IF v = "p000"
    THEN {<<"POST", b, EmptyText, TRUE>> :
             b \in {EmptyBody} \cup {Json([saleId |-> n]) : n \in Ids}}
         \cup {<<"GET", Json([saleId |-> 1]), EmptyText, TRUE>>,
               <<"POST", Json([saleId |-> 1]), EmptyText, FALSE>>}
    ELSE {<<m, EmptyBody, IdText(n), TRUE>> : m \in {"GET", "POST"}, n \in Ids}
         \cup {<<"GET", EmptyBody, BadText, TRUE>>,
               <<"GET", EmptyBody, IdText(1), FALSE>>}

ResetInputs == {<<"POST", TRUE>>, <<"POST", FALSE>>, <<"GET", TRUE>>}

----------------------------------------------------------------------------
(* State machine: one request is served at a time *)

\* The statement of the handler was run by the store and succeeded.
Executed(o) == o.dbCalls = 1 /\ o.status = 200

\* The revisions whose main() pings the store before it listens.
WithPing == {"mainA", "p000", "p001", "p004"}

\* The revisions whose main() runs CREATE TABLE IF NOT EXISTS before it
\* listens (createTable of main.go 1-183, ensureTables of part_000 and
\* part_004).
WithInitializer == {"mainA", "p000", "p004"}

\* A process that went through main() with everything in order and listens.
Serving(v) ==
    [phase |-> "listening",
     env |-> [config |-> TRUE, reachable |-> TRUE, ddlOk |-> TRUE],
     schema |-> v \in WithInitializer]

\* The primary keys of a table.
KeysOf(tbl) == {r.sale_id : r \in tbl}

NoIds == [issued |-> {}, gone |-> {}, issuedEver |-> {}, goneEver |-> {}]

\* The histories after a statement took the table from tbl to new; a
\* successful reset starts issued and gone afresh.
Recorded(h, tbl, new, reset) ==
    LET added == KeysOf(new) \ KeysOf(tbl)
        removed == KeysOf(tbl) \ KeysOf(new)
    IN [issued |-> IF reset THEN {} ELSE h.issued \cup added,
        gone |-> IF reset THEN {} ELSE h.gone \cup removed,
        issuedEver |-> h.issuedEver \cup added,
        goneEver |-> h.goneEver \cup removed]

\* How the store failed in a List: the query, a Scan or the iteration.
ListFault(up, cut) ==
    IF ~up THEN "down" ELSE IF ~cut.lost THEN "none"
    ELSE IF cut.scan THEN "scan" ELSE "rows"

\* How the store failed in a handler of one statement, when it ran one.
StmtFault(o, up) == IF o.dbCalls = 1 /\ ~up THEN "down" ELSE "none"

Exchange(req, o) ==
    [req |-> req, status |-> o.status, text |-> o.text, sales |-> o.sales,
     dbCalls |-> o.dbCalls]

Init ==
    /\ variant \in Variants
    /\ rows = {}
    /\ seq = InitialId - 1
    /\ clock = 0
    /\ resp = NoExchange
    /\ acked = {}
    /\ deletedIds = {}
    /\ afterReset = "none"
    /\ reqs = <<>>
    /\ fault = "none"
    /\ idHist = NoIds
    /\ proc = Serving(variant)

Tick ==
    /\ clock < MaxClock
    /\ clock' = clock + 1
    /\ UNCHANGED <<proc, variant, rows, seq, resp, acked, deletedIds, afterReset, reqs,
                   fault, idHist>>

GetSalesRequest ==
    \E in \in ListInputs :
      LET req == Request("/sales", in[1], EmptyBody, EmptyText, in[2])
      IN \E o \in GetSales(variant, req, in[3], in[4]) :
            /\ resp' = Exchange(req, o)
            /\ rows' = o.rows
            /\ seq' = o.seq
            /\ fault' = ListFault(in[3], in[4])
            /\ idHist' = idHist
            /\ UNCHANGED <<proc, variant, clock, acked, deletedIds, afterReset, reqs>>

CreateSaleRequest ==
    /\ Cardinality(rows) < MaxRows
    /\ seq < MaxId
    /\ \E in \in CreateInputs :
         LET body == in[2]
             req == Request("/sales/create", in[1], body, EmptyText, NoFilter)
             o == CreateSale(variant, req, in[3])
         IN /\ resp' = Exchange(req, o)
            /\ rows' = o.rows
            /\ seq' = o.seq
            /\ acked' = IF Executed(o) /\ body \in ValidBodies
                        THEN acked \cup {body} ELSE acked
            /\ afterReset' = IF ~Executed(o) THEN afterReset
                             ELSE IF afterReset = "reset" THEN "created"
                             ELSE "none"
            /\ fault' = StmtFault(o, in[3])
            /\ idHist' = Recorded(idHist, rows, o.rows, FALSE)
            /\ UNCHANGED <<proc, variant, clock, deletedIds, reqs>>

DeleteSaleRequest ==
    /\ variant \in {"mainA", "p000"}
    /\ \E in \in DeleteInputs(variant) :
         LET req == Request(IF variant = "mainA" THEN "/sales/delete/"
                                                 ELSE "/sales/delete",
                            in[1], in[2], in[3], NoFilter)
             o == DeleteSale(variant, req, in[4])
         IN /\ resp' = Exchange(req, o)
            /\ rows' = o.rows
            /\ seq' = o.seq
            /\ acked' = IF Executed(o) THEN {} ELSE acked
            /\ deletedIds' =
                  IF Executed(o)
                  THEN deletedIds \cup
                         {[id |-> DeleteKey(variant, req),
                           assigned |-> DeleteKey(variant, req) \in InitialId..seq]}
                  ELSE deletedIds
            /\ fault' = StmtFault(o, in[4])
            /\ idHist' = Recorded(idHist, rows, o.rows, FALSE)
            /\ UNCHANGED <<proc, variant, clock, afterReset, reqs>>

ResetSalesRequest ==
    /\ "/sales/reset" \in Routes(variant)
    /\ \E in \in ResetInputs :
         LET req == Request("/sales/reset", in[1], EmptyBody, EmptyText, NoFilter)
             o == resetSales(req, in[2])
         IN /\ resp' = Exchange(req, o)
            /\ rows' = o.rows
            /\ seq' = o.seq
            /\ acked' = IF Executed(o) THEN {} ELSE acked
            /\ deletedIds' = IF Executed(o) THEN {} ELSE deletedIds
            /\ afterReset' = IF Executed(o) THEN "reset" ELSE afterReset
            /\ fault' = StmtFault(o, in[2])
            /\ idHist' = Recorded(idHist, rows, o.rows, Executed(o))
            /\ UNCHANGED <<proc, variant, clock, reqs>>

Next ==
    \/ Tick
    \/ GetSalesRequest
    \/ CreateSaleRequest
    \/ DeleteSaleRequest
    \/ ResetSalesRequest

Spec == Init /\ [][Next]_vars

----------------------------------------------------------------------------
(* State machine: NumReqs create requests served concurrently, one          *)
(* goroutine each.  A handler touches shared state in one store statement   *)
(* only; what it does before (method check, decode) and after (writing the  *)
(* response) is local to the request.                                       *)

ConcInit ==
    /\ variant \in Variants
    /\ rows = {}
    /\ seq = InitialId - 1
    /\ clock = 0
    /\ resp = NoExchange
    /\ acked = {}
    /\ deletedIds = {}
    /\ afterReset = "none"
    /\ reqs = [i \in 1..NumReqs |-> [pc |-> "idle", body |-> EmptyBody, status |-> 0]]
    /\ fault = "none"
    /\ idHist = NoIds
    /\ proc = Serving(variant)

CreateRequest(body) == Request("/sales/create", "POST", body, EmptyText, NoFilter)

\* The request arrives; the handler checks the method and decodes the body.
ConcArrive(i) ==
    /\ reqs[i].pc = "idle"
    /\ \E body \in Bodies :
         LET o == CreateSale(variant, CreateRequest(body), TRUE)
         IN reqs' = [reqs EXCEPT ![i] =
                        IF o.dbCalls = 0
                        THEN [pc |-> "done", body |-> body, status |-> o.status]
                        ELSE [pc |-> "decoded", body |-> body, status |-> 0]]
    /\ UNCHANGED <<proc, variant, rows, seq, clock, resp, acked, deletedIds, afterReset,
                   fault, idHist>>

\* The handler's INSERT runs in the store.
ConcExec(i) ==
    /\ reqs[i].pc = "decoded"
    /\ \E up \in BOOLEAN :
         LET o == CreateSale(variant, CreateRequest(reqs[i].body), up)
         IN /\ rows' = o.rows
            /\ seq' = o.seq
            /\ reqs' = [reqs EXCEPT ![i].pc = "executed", ![i].status = o.status]
            /\ idHist' = Recorded(idHist, rows, o.rows, FALSE)
    /\ UNCHANGED <<proc, variant, clock, resp, acked, deletedIds, afterReset, fault>>

\* The handler writes the response.
ConcRespond(i) ==
    /\ reqs[i].pc = "executed"
    /\ reqs' = [reqs EXCEPT ![i].pc = "done"]
    /\ UNCHANGED <<proc, variant, rows, seq, clock, resp, acked, deletedIds, afterReset,
                   fault, idHist>>

ConcNext ==
    \/ Tick
    \/ \E i \in 1..NumReqs : ConcArrive(i)
    \/ \E i \in 1..NumReqs : ConcExec(i)
    \/ \E i \in 1..NumReqs : ConcRespond(i)

ConcSpec == ConcInit /\ [][ConcNext]_vars

----------------------------------------------------------------------------
(* State machine: the process from its start.  main() reads the            *)
(* configuration, opens the store handle, pings the store and runs the     *)
(* schema initializer where the revision has these steps, registers the    *)
(* handlers and listens; log.Fatal ends the process.                       *)

served == <<variant, rows, seq, clock, resp, acked, deletedIds, afterReset, reqs,
            fault, idHist>>

BootInit ==
    /\ variant \in Variants
    /\ rows = {}
    /\ seq = InitialId - 1
    /\ clock = 0
    /\ resp = NoExchange
    /\ acked = {}
    /\ deletedIds = {}
    /\ afterReset = "none"
    /\ reqs = <<>>
    /\ fault = "none"
    /\ idHist = NoIds
    /\ \E config, reachable, ddlOk \in BOOLEAN :
          proc = [phase |-> "start",
                  env |-> [config |-> config, reachable |-> reachable,
                           ddlOk |-> ddlOk],
                  schema |-> FALSE]

\* os.Getenv of the connection string; log.Fatal when it is empty.
ReadConfig ==
    /\ proc.phase = "start"
    /\ proc' = [proc EXCEPT !.phase = IF proc.env.config THEN "configured"
                                                         ELSE "exited"]
    /\ UNCHANGED served

\* sql.Open: connects to nothing; log.Fatal when the driver rejects the
\* connection string.
OpenDb ==
    /\ proc.phase = "configured"
    /\ \E ok \in BOOLEAN :
          proc' = [proc EXCEPT !.phase = IF ok THEN "opened" ELSE "exited"]
    /\ UNCHANGED served

\* db.Ping; log.Fatal when the store cannot be reached.
PingDb ==
    /\ variant \in WithPing
    /\ proc.phase = "opened"
    /\ proc' = [proc EXCEPT !.phase = IF proc.env.reachable THEN "pinged"
                                                            ELSE "exited"]
    /\ UNCHANGED served

\* ensureTables / createTable: CREATE TABLE IF NOT EXISTS; log.Fatal when
\* the statement fails.
EnsureTables ==
    /\ variant \in WithInitializer
    /\ proc.phase = "pinged"
    /\ proc' = IF proc.env.ddlOk
               THEN [proc EXCEPT !.phase = "ensured", !.schema = TRUE]
               ELSE [proc EXCEPT !.phase = "exited"]
    /\ UNCHANGED served

\* The phase main() is in when it reaches http.ListenAndServe.
BeforeListen(v) ==
    IF v \in WithInitializer THEN "ensured"
    ELSE IF v \in WithPing THEN "pinged" ELSE "opened"

\* http.HandleFunc ... http.ListenAndServe: from here on requests are served.
Listen ==
    /\ proc.phase = BeforeListen(variant)
    /\ proc' = [proc EXCEPT !.phase = "listening"]
    /\ UNCHANGED served

\* A listening process serves a List or a Create.
BootServe ==
    /\ proc.phase = "listening"
    /\ GetSalesRequest \/ CreateSaleRequest

BootNext ==
    \/ ReadConfig
    \/ OpenDb
    \/ PingDb
    \/ EnsureTables
    \/ Listen
    \/ BootServe

BootSpec == BootInit /\ [][BootNext]_vars

----------------------------------------------------------------------------
(* State machine: requests whose store call is a step of its own.  A       *)
(* handler sends its one statement and blocks; the store answers or never  *)
(* does; where the call was given a context with the 5 s timeout the       *)
(* deadline ends the wait with an error.  Go's timers fire and a handler   *)
(* that can go on does go on, so the deadline and the writing of the       *)
(* response are weakly fair; nothing makes the store answer.               *)

\* The store call of the handler of the path carries context.WithTimeout.
Deadline(v, path) ==
    CASE path = "/sales" -> HasDeadline(v)
      [] path = "/sales/create" -> v \in {"p000", "p004"}
      [] path = "/sales/reset" -> v = "p004"
      [] OTHER -> FALSE

\* The outcomes of the handler registered for the path of the request.
Handle(v, req, up) ==
    CASE req.path = "/sales" -> GetSales(v, req, up, NoCut)
      [] req.path = "/sales/create" -> {CreateSale(v, req, up)}
      [] req.path = "/sales/reset" -> {resetSales(req, up)}
      [] OTHER -> {DeleteSale(v, req, up)}

\* One request for each handler of the revision, and one that is rejected
\* before the store is called.
LiveInputs(v) ==
    {Request("/sales", "GET", EmptyBody, EmptyText, NoFilter),
     CreateRequest(BodyAsha), CreateRequest(BadJson)}
      \cup (IF "/sales/reset" \in Routes(v)
            THEN {Request("/sales/reset", "POST", EmptyBody, EmptyText, NoFilter)}
            ELSE {})
      \cup (IF "/sales/delete" \in Routes(v)
            THEN {Request("/sales/delete", "POST", Json([saleId |-> 1]), EmptyText,
                          NoFilter)}
            ELSE {})
      \cup (IF "/sales/delete/" \in Routes(v)
            THEN {Request("/sales/delete/", "GET", EmptyBody, IdText(1), NoFilter)}
            ELSE {})

Idle == [pc |-> "idle", req |-> NoExchange.req, status |-> 0, calls |-> 0]

LiveInit ==
    /\ variant \in Variants
    /\ rows = {}
    /\ seq = InitialId - 1
    /\ clock = 0
    /\ resp = NoExchange
    /\ acked = {}
    /\ deletedIds = {}
    /\ afterReset = "none"
    /\ reqs = [i \in 1..NumReqs |-> Idle]
    /\ fault = "none"
    /\ idHist = NoIds
    /\ proc = Serving(variant)

\* The create requests whose INSERT the store has not run yet.
PendingCreates ==
    {i \in DOMAIN reqs : reqs[i].pc = "calling" /\ reqs[i].req.path = "/sales/create"}

\* The request arrives; the handler checks method and body and either
\* answers or sends its statement to the store and waits.
LiveArrive(i) ==
    /\ reqs[i].pc = "idle"
    /\ \E req \in LiveInputs(variant) :
         /\ req.path = "/sales/create" =>
               /\ Cardinality(rows) + Cardinality(PendingCreates) < MaxRows
               /\ seq + Cardinality(PendingCreates) < MaxId
         /\ \E o \in Handle(variant, req, TRUE) :
               reqs' = [reqs EXCEPT ![i] =
                          IF o.dbCalls = 0
                          THEN [pc |-> "answered", req |-> req, status |-> o.status,
                                calls |-> 0]
                          ELSE [pc |-> "calling", req |-> req, status |-> 0,
                                calls |-> 1]]
    /\ UNCHANGED <<proc, variant, rows, seq, clock, resp, acked, deletedIds,
                   afterReset, fault, idHist>>

\* The store runs the statement, or fails it, and answers.
StoreAnswers(i) ==
    /\ reqs[i].pc = "calling"
    /\ \E up \in BOOLEAN :
         \E o \in Handle(variant, reqs[i].req, up) :
            /\ rows' = o.rows
            /\ seq' = o.seq
            /\ reqs' = [reqs EXCEPT ![i].pc = "answered", ![i].status = o.status]
            /\ idHist' = Recorded(idHist, rows, o.rows,
                                  reqs[i].req.path = "/sales/reset" /\ Executed(o))
    /\ UNCHANGED <<proc, variant, clock, resp, acked, deletedIds, afterReset, fault>>

\* The deadline of the call's context passes before the store answered: the
\* call returns the context's error and the handler answers 500; it sends
\* no second statement.
DeadlinePasses(i) ==
    /\ reqs[i].pc = "calling"
    /\ Deadline(variant, reqs[i].req.path)
    /\ reqs' = [reqs EXCEPT ![i].pc = "answered", ![i].status = 500]
    /\ UNCHANGED <<proc, variant, rows, seq, clock, resp, acked, deletedIds,
                   afterReset, fault, idHist>>

\* The handler writes the response and returns.
LiveRespond(i) ==
    /\ reqs[i].pc = "answered"
    /\ reqs' = [reqs EXCEPT ![i].pc = "done"]
    /\ UNCHANGED <<proc, variant, rows, seq, clock, resp, acked, deletedIds,
                   afterReset, fault, idHist>>

LiveNext ==
    \/ \E i \in 1..NumReqs : LiveArrive(i)
    \/ \E i \in 1..NumReqs : StoreAnswers(i)
    \/ \E i \in 1..NumReqs : DeadlinePasses(i)
    \/ \E i \in 1..NumReqs : LiveRespond(i)

LiveSpec ==
    /\ LiveInit
    /\ [][LiveNext]_vars
    /\ \A i \in 1..NumReqs : WF_vars(DeadlinePasses(i)) /\ WF_vars(LiveRespond(i))

----------------------------------------------------------------------------
(* Properties *)

\* The last exchange is a successful List; the sales it returned.
IsList == resp.req.path = "/sales" /\ resp.status = 200
Listed == Range(resp.sales)

\* The sale has the customerName, productName and quantity of the body.
SameSale(s, obj) ==
    /\ s.customerName = obj.customerName
    /\ s.productName = obj.productName
    /\ s.quantity = obj.quantity

\* The price is the sent price rounded to two fractional digits.
RoundedPrice(price, sent) == price % 10 = 0 /\ price - sent \in -4..5

C2_DeletedNeverListed ==
    IsList => \A d \in deletedIds : \A s \in Listed : s.saleId # d.id

\* C2 amended: after DeleteByID(id) returns success for an id the store had
\* already handed out, no later List returns a row with that id (no ClearAll
\* in between).
C2_AssignedDeletedNeverListed ==
    IsList => \A d \in deletedIds : d.assigned => \A s \in Listed : s.saleId # d.id

\* A row was deleted, another was created afterwards, and a List returned it.
C2_Witness ==
    /\ IsList
    /\ \E d \in deletedIds : d.assigned
    /\ acked # {}
    /\ Len(resp.sales) >= 1

\* The last exchange is a Delete the store ran; the id it asked for.
IsDelete(r) == r.req.path \in {"/sales/delete", "/sales/delete/"} /\ r.dbCalls = 1
RequestedId(req) ==
    IF req.arg.text = "num" THEN req.arg.at
    ELSE IF Has(req.body.obj, "saleId") THEN req.body.obj.saleId ELSE 0

\* C3: a DeleteByID(id) that reports success has removed the row with that
\* id, at most one row, and left every other row as it was; it reports
\* success and the table is as before when no row has the id, so a repeated
\* delete changes nothing.  The only failure of a delete the store was asked
\* to run is a store failure, which changes nothing.
C3_DeleteExactlyThatRow ==
    [][IsDelete(resp') =>
         IF resp'.status = 200
         THEN /\ rows' = {r \in rows : r.sale_id # RequestedId(resp'.req)}
              /\ Cardinality(rows \ rows') <= 1
              /\ seq' = seq
         ELSE resp'.status = 500 /\ rows' = rows]_vars

\* A delete of an id that no row has reported success and a row is left.
C3_Witness ==
    /\ IsDelete(resp)
    /\ resp.status = 200
    /\ rows # {}
    /\ \A r \in rows : r.sale_id # RequestedId(resp.req)
    /\ \E d \in deletedIds : d.assigned
    /\ \E d \in deletedIds : ~d.assigned

\* C4: after a successful ClearAll the table is empty, and the next
\* successful Create produces a row whose id is the initial value of the
\* sequence.
C4_ResetRestartsIds ==
    /\ afterReset = "reset" => rows = {}
    /\ afterReset = "created" => \E r \in rows : rows = {r} /\ r.sale_id = InitialId

\* A create followed a reset and the row shows in a List.
C4_Witness ==
    /\ afterReset = "created"
    /\ IsList
    /\ Len(resp.sales) = 1

\* C5: a GET List without filters returns rows of the table in descending
\* createdDate order, each at most once, never more than the cap; when the
\* table holds more rows than the cap, it returns cap-many rows and no row
\* left out is newer than a row returned.
C5_NewestFirstCapped ==
    IsList /\ resp.req.method = "GET" /\ ~resp.req.filter.on =>
      /\ \A i, j \in DOMAIN resp.sales :
            i < j => /\ resp.sales[i].createdDate >= resp.sales[j].createdDate
                     /\ resp.sales[i].saleId # resp.sales[j].saleId
      /\ \A s \in Listed : \E r \in rows : r.sale_id = s.saleId
      /\ HasLimit(variant) => Len(resp.sales) <= Limit(variant)
      /\ HasLimit(variant) /\ Cardinality(rows) > Limit(variant) =>
            /\ Len(resp.sales) = Limit(variant)
            /\ \A r \in rows :
                  (\A s \in Listed : s.saleId # r.sale_id) =>
                     \A s \in Listed : s.createdDate >= r.created_date

\* The calendar day of a timestamp.
Day(t) == t \div TicksPerDay

\* C6: a List with from and to returns only rows whose createdDate day lies
\* in [from, to], and every such row of the table when the List is not cut
\* off at the cap.
C6_FilterHonoured ==
    IsList /\ resp.req.filter.on =>
      /\ \A s \in Listed :
            Day(s.createdDate) \in resp.req.filter.from..resp.req.filter.to
      /\ Len(resp.sales) = Cardinality(rows) \/ ~HasLimit(variant) =>
            \A r \in rows :
               Day(r.created_date) \in resp.req.filter.from..resp.req.filter.to =>
                  \E s \in Listed : s.saleId = r.sale_id

\* C7: when the concurrent creates have all answered with success, the
\* table has gained one row for each and their ids are pairwise distinct;
\* at every moment the table holds one row for each insert that succeeded.
C7_NoLostInsertNoDuplicateId ==
    /\ Cardinality(rows) =
          Cardinality({i \in DOMAIN reqs :
                          reqs[i].pc \in {"executed", "done"} /\ reqs[i].status = 200})
    /\ \A r1, r2 \in rows : r1.sale_id = r2.sale_id => r1 = r2
    /\ (\A i \in DOMAIN reqs : reqs[i].pc = "done" /\ reqs[i].status = 200) =>
          Cardinality({r.sale_id : r \in rows}) = NumReqs

\* Every concurrent create has answered with success.
C7_Witness ==
    /\ DOMAIN reqs = 1..NumReqs
    /\ \A i \in DOMAIN reqs : reqs[i].pc = "done" /\ reqs[i].status = 200
    /\ Cardinality(rows) = NumReqs

\* C8: a POST to /sales/create with an empty body or a body that is no JSON
\* is answered 400 with a non-empty message and inserts no row (stated for
\* the exchanges in which no store failure is reported).
C8_BadBodyRejected ==
    [][resp'.req.path = "/sales/create" /\ resp'.req.method = "POST"
          /\ resp'.req.body.kind \in {"empty", "invalid"}
          /\ resp'.text # "store error" =>
       resp'.status = 400 /\ resp'.text # "" /\ rows' = rows]_vars

\* C9: a sale created by a request that omits paymentMethod is stored, and
\* returned by List, with paymentMethod "CASH".
C9_DefaultsToCash ==
    \A b \in acked :
      ~Has(b.obj, "paymentMethod") =>
        /\ \A r \in rows :
              r.customer_name = b.obj.customerName /\ r.product_name = b.obj.productName
                 => r.payment_method = "CASH"
        /\ IsList =>
              \A s \in Listed :
                 SameSale(s, b.obj) => Has(s, "paymentMethod") /\ s.paymentMethod = "CASH"

\* The method an endpoint accepts.
Accepted(path) == IF path = "/sales" THEN "GET" ELSE "POST"

\* C10: a request whose method is not the one its endpoint accepts (and is
\* no OPTIONS preflight) is answered 405, makes no store call and leaves the
\* table unchanged (stated for the exchanges in which no store failure is
\* reported).
C10_WrongMethodRejected ==
    [][resp'.req.path # "" /\ resp'.req.method \notin {Accepted(resp'.req.path), "OPTIONS"}
          /\ resp'.text # "store error"
          => resp'.status = 405 /\ resp'.dbCalls = 0 /\ rows' = rows]_vars
\* C11: a List during which the query fails, a row fails to decode or the
\* row iteration ends with an error is answered with an error and no sale
\* rows; a successful List carries every row the query selected, each fully
\* decoded, never a partial or zero-filled subset.
C11_ListAllOrNothing ==
    resp.req.path = "/sales" =>
      /\ fault # "none" => resp.status = 500 /\ resp.sales = <<>>
      /\ resp.status = 200 =>
            \E s \in SelectOrdered(rows, HasLimit(variant), Limit(variant)) :
               resp.sales = [i \in 1..Len(s) |-> ToSale(variant, s[i])]

\* C12 as stated: over any sequence of Create, DeleteByID and ClearAll, an
\* id assigned by Create is unique among the current rows, greater than
\* every id assigned before it and never the id of a row that existed
\* earlier and was removed.
C12_IdsNeverReused ==
    [][\A id \in KeysOf(rows') \ KeysOf(rows) :
          /\ Cardinality(KeysOf(rows')) = Cardinality(rows')
          /\ \A j \in idHist.issuedEver : id > j
          /\ id \notin idHist.goneEver]_vars

\* C12 amended: over any sequence of Create and DeleteByID since the start
\* or since the last successful ClearAll, an id assigned by Create is unique
\* among the current rows, greater than every id assigned before it in that
\* sequence and never the id of a row removed in it.
C12_IdsNeverReusedSinceReset ==
    [][\A id \in KeysOf(rows') \ KeysOf(rows) :
          /\ Cardinality(KeysOf(rows')) = Cardinality(rows')
          /\ \A j \in idHist.issued : id > j
          /\ id \notin idHist.gone]_vars

\* A Create succeeded after a row had been deleted, the table not empty
\* before it.
C12_Witness ==
    /\ resp.req.path = "/sales/create"
    /\ resp.status = 200
    /\ idHist.gone # {}
    /\ \E id \in KeysOf(rows) : \A j \in idHist.gone : id > j

\* C13: a request is served only after the schema initializer has run and
\* succeeded; a process started without its configuration, with a store it
\* cannot reach or with a DDL statement that fails never listens and never
\* serves a request.
C13_SchemaBeforeServing ==
    /\ proc.phase = "listening" \/ resp # NoExchange => proc.schema
    /\ ~proc.env.config \/ ~proc.env.reachable \/ ~proc.env.ddlOk =>
          proc.phase # "listening" /\ resp = NoExchange

\* C14: a request during which the store fails (Create, DeleteByID,
\* ClearAll or List) is answered with status 500 and the error text, the
\* process goes on listening, and the table is as it was before the request.
C14_StoreFailureIs500 ==
    [][fault' # "none" =>
          /\ resp'.status = 500
          /\ resp'.text # EmptyText.text
          /\ proc'.phase = "listening"
          /\ rows' = rows]_vars

\* C15: every request whose handler has sent its statement to the store
\* gets its response, whether or not the store ever answers.
C15_EveryRequestAnswered ==
    \A i \in 1..NumReqs : (reqs[i].pc = "calling") ~> (reqs[i].pc = "done")

====
